---- MODULE Spec2Model ----
(***************************************************************************)
(* RFID Cube Podium PN532 firmware (src/src/main.cpp).                     *)
(*                                                                         *)
(* A String is a sequence of character codes (ASCII, 0..255), an EEPROM    *)
(* image is a function from the addresses 0..511 to bytes.  One action     *)
(* models one handler of loop(): readNFC, readBTSerial, readSerial.        *)
(***************************************************************************)
EXTENDS Integers, Sequences, FiniteSets, TLC

(***************************************************************************)
(* Program constants.                                                      *)
(***************************************************************************)
DEBUG == FALSE
EEPROM_SIZE == 512
MAX_SLOTS == 20
CLAMP_DEFAULT == 10
BYTE_MOD == 256
ADDR_NUM_TAGS == 0
TAGS_BASE == 10
CMDS_BASE == 200
STRIDE == 10
ADDR_REMOVE == 400
CMD_TEXT_START == 3

(***************************************************************************)
(* Bounds of the model.                                                    *)
(***************************************************************************)
MaxBoots == 1

(***************************************************************************)
(* Characters: the code of a one-character string.                         *)
(***************************************************************************)
Digits == << "0", "1", "2", "3", "4", "5", "6", "7", "8", "9" >>
UpperCase ==
  << "A", "B", "C", "D", "E", "F", "G", "H", "I", "J", "K", "L", "M",
     "N", "O", "P", "Q", "R", "S", "T", "U", "V", "W", "X", "Y", "Z" >>
LowerCase ==
  << "a", "b", "c", "d", "e", "f", "g", "h", "i", "j", "k", "l", "m",
     "n", "o", "p", "q", "r", "s", "t", "u", "v", "w", "x", "y", "z" >>

IndexOf(seq, c) == CHOOSE i \in 1..Len(seq) : seq[i] = c
InSeq(seq, c) == \E i \in 1..Len(seq) : seq[i] = c

Ord(c) ==
  IF InSeq(Digits, c) THEN 47 + IndexOf(Digits, c)
  ELSE IF InSeq(UpperCase, c) THEN 64 + IndexOf(UpperCase, c)
  ELSE IF InSeq(LowerCase, c) THEN 96 + IndexOf(LowerCase, c)
  ELSE IF c = " " THEN 32
  ELSE IF c = "+" THEN 43
  ELSE IF c = "-" THEN 45
  ELSE IF c = ":" THEN 58
  ELSE 95  \* "_"

\* The String whose characters are the one-character strings of the tuple t.
Str(t) == [i \in 1..Len(t) |-> Ord(t[i])]

EmptyString == << >>

SetMin(S) == CHOOSE x \in S : \A y \in S : x <= y

(***************************************************************************)
(* Arduino String operations used by the firmware.                         *)
(***************************************************************************)
\* String(const char*): the characters up to the first NUL.
CString(data) ==
  LET nul == {i \in 1..Len(data) : data[i] = 0}
  IN  IF nul = {} THEN data ELSE SubSeq(data, 1, SetMin(nul) - 1)

\* data.substring(left, right): characters left .. right-1 (0-based).
substring(s, from, to) ==
  LET left  == IF from > to THEN to ELSE from
      right0 == IF from > to THEN from ELSE to
      right == IF right0 > Len(s) THEN Len(s) ELSE right0
  IN  IF left >= Len(s) THEN EmptyString ELSE SubSeq(s, left + 1, right)

\* data.startsWith(p)
\* Faulty variant: the prefix is compared without regard to case.
startsWith_ignoreCase(s, p) ==
  /\ Len(s) >= Len(p)
  /\ [i \in 1..Len(p) |-> IF s[i] \in 97..122 THEN s[i] - 32 ELSE s[i]] = p
\* data.startsWith(p)
startsWith(s, p) == Len(s) >= Len(p) /\ SubSeq(s, 1, Len(p)) = p

\* Faulty variant: the word is looked for at the start of the line only.
contains_atStart(s, p) == Len(s) >= Len(p) /\ SubSeq(s, 1, Len(p)) = p
\* data.indexOf(p) >= 0
contains(s, p) ==
  \E k \in 0..(Len(s) - Len(p)) : SubSeq(s, k + 1, k + Len(p)) = p

IsSpace(c) == c \in {32, 9, 10, 11, 12, 13}
IsDigit(c) == c \in 48..57

RECURSIVE DigitsValue(_, _, _)
\* The value of the run of decimal digits of s starting at position i.
DigitsValue(s, i, acc) ==
  IF i <= Len(s) /\ IsDigit(s[i])
     THEN DigitsValue(s, i + 1, acc * 10 + (s[i] - 48))
     ELSE acc

RECURSIVE SkipSpace(_, _)
SkipSpace(s, i) == IF i <= Len(s) /\ IsSpace(s[i]) THEN SkipSpace(s, i + 1) ELSE i

\* String::toInt() (atol): leading white space, an optional sign, then digits;
\* 0 when there is no digit.
toInt(s) ==
  LET i == SkipSpace(s, 1)
  IN  IF i <= Len(s) /\ s[i] = 45 THEN 0 - DigitsValue(s, i + 1, 0)
      ELSE IF i <= Len(s) /\ s[i] = 43 THEN DigitsValue(s, i + 1, 0)
      ELSE DigitsValue(s, i, 0)

RECURSIVE DecDigits(_)
DecDigits(n) == IF n < 10 THEN << 48 + n >> ELSE Append(DecDigits(n \div 10), 48 + (n % 10))

\* String(n) for an integer n, in decimal.
StringDec(n) == IF n < 0 THEN << 45 >> \o DecDigits(0 - n) ELSE DecDigits(n)

\* String(b, HEX) for a byte b: lower-case hexadecimal, no leading zero.
HexDigitLower(d) == IF d < 10 THEN 48 + d ELSE 97 + (d - 10)
StringHex(b) ==
  IF b < 16 THEN << HexDigitLower(b) >>
  ELSE << HexDigitLower(b \div 16), HexDigitLower(b % 16) >>

\* String::toUpperCase()
toUpperCase(s) == [i \in 1..Len(s) |-> IF s[i] \in 97..122 THEN s[i] - 32 ELSE s[i]]

\* uint8_t x = v;
ToUint8(v) == v % BYTE_MOD

(***************************************************************************)
(* The non-volatile byte store: EEPROM.read / write / commit on a RAM      *)
(* buffer (eeprom) that commit() copies to the flash.                      *)
(***************************************************************************)
Addrs == 0..(EEPROM_SIZE - 1)

\* EEPROM.read(a): a byte of the buffer; the ESP32 core returns 0 outside the buffer.
EEPROMread(mem, a) == IF a \in Addrs THEN mem[a] ELSE 0

\* EEPROM.write(a, v): the ESP32 core ignores a write outside the buffer.
EEPROMwrite(mem, a, v) == IF a \in Addrs THEN [mem EXCEPT ![a] = ToUint8(v)] ELSE mem

\* Faulty variant: a commit that leaves the flash as it was.
EEPROMcommit_noFlush(buf, fl) == fl
\* EEPROM.commit(): the flash after the commit of buffer buf.
EEPROMcommit(buf, fl) == buf

\* Faulty variant: the length byte is not written.
writeStringToEEPROM_noLen(mem, addrOffset, strToWrite) ==
  LET len == ToUint8(Len(strToWrite))
  IN  [a \in Addrs |->
         IF a > addrOffset /\ a <= addrOffset + len THEN strToWrite[a - addrOffset]
         ELSE mem[a]]
\* writeStringToEEPROM(addrOffset, strToWrite): the buffer after the call.
writeStringToEEPROM(mem, addrOffset, strToWrite) ==
  LET len == ToUint8(Len(strToWrite))
  IN  [a \in Addrs |->
         IF a = addrOffset THEN len
         ELSE IF a > addrOffset /\ a <= addrOffset + len THEN strToWrite[a - addrOffset]
         ELSE mem[a]]

\* readStringFromEEPROM(addrOffset)
readStringFromEEPROM(mem, addrOffset) ==
  LET newStrLen == EEPROMread(mem, addrOffset)
      data == [i \in 1..newStrLen |-> EEPROMread(mem, addrOffset + i)]
  IN  CString(data)

TagAddr(i) == TAGS_BASE + i * STRIDE
CmdAddr(i) == CMDS_BASE + i * STRIDE

(***************************************************************************)
(* Lines written to a channel: a format and its String arguments.          *)
(***************************************************************************)
Line(fmt, args) == [fmt |-> fmt, args |-> args]
BlankLine == Line("", << >>)
TextLine(s) == Line("%1", << s >>)

(***************************************************************************)
(* State.                                                                  *)
(***************************************************************************)
VARIABLES
  cardPresesnt,   \* bool cardPresesnt
  mode,           \* bool mode
  numTags,        \* uint8_t numTags
  removeCommand,  \* String removeCommand
  commands,       \* String commands[20]
  tags,           \* String tags[20]
  tagID,          \* String tagID
  prevTagID,      \* String prevTagID
  eeprom,         \* the EEPROM buffer
  flash,          \* the committed EEPROM content
  pc,             \* position in setup() / loop()
  outSerial,      \* lines written to Serial by the last handler
  outSerial2,     \* lines written to Serial2 by the last handler
  outBT,          \* lines written to SerialBT by the last handler
  last,           \* the last handler run and its input
  event,          \* presence transition taken by the last handler
  lastEvent,      \* the most recent presence transition since boot
  session,        \* the operator session: the tags presented, the lines sent
  nBoots,         \* reboots
  interval,       \* the presence interval: whether its arrival wrote a slot command, whether
                  \* a line was handled in it, whether one changed numTags or tags
  probe           \* the record written to and read from the store directly

vars == << cardPresesnt, mode, numTags, removeCommand, commands, tags, tagID,
           prevTagID, eeprom, flash, pc, outSerial, outSerial2, outBT, last,
           event, lastEvent, session, nBoots, interval, probe >>

Slots == 0..(MAX_SLOTS - 1)

(***************************************************************************)
(* eepromInit(): the configuration loaded from the buffer mem.  Slots at   *)
(* and above numTags keep what the arrays hold (tags0, commands0).         *)
(***************************************************************************)
\* Faulty variant: no clamp.
ClampNumTags_noClamp(n) == n
\* Faulty variant: a count above the cap becomes the cap.
ClampNumTags_min(n) == IF n > MAX_SLOTS THEN MAX_SLOTS ELSE n
\* if (numTags > 20) numTags = 10;
ClampNumTags(n) == IF n > MAX_SLOTS THEN CLAMP_DEFAULT ELSE n

eepromInit(mem, tags0, commands0) ==
  LET n == ClampNumTags(ToUint8(EEPROMread(mem, ADDR_NUM_TAGS)))
  IN  [ numTags       |-> n,
        removeCommand |-> readStringFromEEPROM(mem, ADDR_REMOVE),
        tags          |-> [i \in Slots |-> IF i < n THEN readStringFromEEPROM(mem, TagAddr(i))
                                                   ELSE tags0[i]],
        commands      |-> [i \in Slots |-> IF i < n THEN readStringFromEEPROM(mem, CmdAddr(i))
                                                   ELSE commands0[i]] ]

\* String tags[] = {"", ...}; String commands[] = {"", ...};
EmptySlots == [i \in Slots |-> EmptyString]

(***************************************************************************)
(* processTagID and readNFC.                                               *)
(***************************************************************************)
\* Lines 135-139: the identity of a UID, two upper-case hex digits per byte.
RECURSIVE UidHex(_, _)
UidHex(uid, i) ==
  IF i > Len(uid) THEN EmptyString
  ELSE (IF uid[i] < 16 THEN << 48 >> ELSE EmptyString) \o StringHex(uid[i]) \o UidHex(uid, i + 1)

UidToTagID(uid) == toUpperCase(UidHex(uid, 1))

\* What an event handler writes: println(); println(text) on the channel mode selects.
EventOutput(text) ==
  [ serial  |-> IF ~mode THEN << BlankLine, TextLine(text) >> ELSE << >>,
    serial2 |-> IF mode THEN << BlankLine, TextLine(text) >> ELSE << >> ]

NoOutput == [serial |-> << >>, serial2 |-> << >>]

\* for (i = 0; i < numTags; i++) if (id == tags[i]) ...: the first matching slot from i on, -1 if none.
RECURSIVE FirstMatch(_, _)
FirstMatch(id, i) ==
  IF i >= numTags THEN -1
  ELSE IF id = tags[i] THEN i
  ELSE FirstMatch(id, i + 1)

\* Faulty variant: the scan keeps the last matching slot.
RECURSIVE LastMatch(_, _)
LastMatch(id, i) ==
  IF i >= numTags THEN -1
  ELSE LET later == LastMatch(id, i + 1)
       IN  IF later >= 0 THEN later ELSE IF id = tags[i] THEN i ELSE -1

processTagID_lastMatch(tagID_) ==
  LET i == LastMatch(tagID_, 0)
  IN  IF i >= 0 THEN EventOutput(commands[i]) ELSE NoOutput
\* processTagID(tagID_): what it writes to Serial and Serial2.
processTagID(tagID_) ==
  LET i == FirstMatch(tagID_, 0)
  IN  IF i >= 0 THEN EventOutput(commands[i])
      ELSE [serial |-> IF DEBUG THEN << Line("UNKNOWN TAG", << >>) >> ELSE << >>,
            serial2 |-> << >>]

\* Faulty variant: the removal scan writes nothing.
RemoveOutput_never(id) == NoOutput
\* Faulty variant: the remove-command is written without a scan.
RemoveOutput_always(id) == EventOutput(removeCommand)
\* Lines 154-160: the output of the removal scan.
RemoveOutput(id) ==
  IF FirstMatch(id, 0) >= 0 THEN EventOutput(removeCommand) ELSE NoOutput

\* readNFC and processTagID assign nothing of the configuration or the store.
NfcConfig ==
  [ numTags |-> numTags, tags |-> tags, commands |-> commands,
    removeCommand |-> removeCommand, mode |-> mode, eeprom |-> eeprom, flash |-> flash ]

NoEvent == [kind |-> "None", id |-> EmptyString]
Arrived(id) == [kind |-> "Arrived", id |-> id]
Removed(id) == [kind |-> "Removed", id |-> id]

\* Lines 128, 130: no change in card / waiting for a new card.
NfcNoChange ==
  [ cardPresesnt |-> cardPresesnt, tagID |-> EmptyString, prevTagID |-> prevTagID,
    out |-> NoOutput, event |-> NoEvent, cfg |-> NfcConfig ]

\* Faulty variant: cardPresesnt is not set on arrival.
NfcArrival_noLatch(uid) ==
  LET id == UidToTagID(uid)
  IN  [ cardPresesnt |-> FALSE, tagID |-> id, prevTagID |-> id,
        out |-> processTagID(id), event |-> Arrived(id), cfg |-> NfcConfig ]
\* Faulty variant: an arriving tag is bound to slot 0.
NfcArrival_learn(uid) ==
  LET id == UidToTagID(uid)
  IN  [ cardPresesnt |-> TRUE, tagID |-> id, prevTagID |-> id,
        out |-> processTagID(id), event |-> Arrived(id),
        cfg |-> [NfcConfig EXCEPT !.tags = [tags EXCEPT ![0] = id]] ]
\* Lines 132-149: a new tag is found.
NfcArrival(uid) ==
  LET id == UidToTagID(uid)
  IN  [ cardPresesnt |-> TRUE, tagID |-> id, prevTagID |-> id,
        out |-> processTagID(id), event |-> Arrived(id), cfg |-> NfcConfig ]

\* Lines 151-161: the card is removed.
NfcRemoval ==
  [ cardPresesnt |-> FALSE, tagID |-> EmptyString, prevTagID |-> prevTagID,
    out |-> RemoveOutput(prevTagID), event |-> Removed(prevTagID), cfg |-> NfcConfig ]

\* Faulty variant: a present card is identified again on every successful poll.
readNFC_reidentify(success_, uid) ==
  IF success_ /\ cardPresesnt /\ UidToTagID(uid) = prevTagID THEN NfcNoChange
  ELSE IF ~success_ /\ ~cardPresesnt THEN NfcNoChange
  ELSE IF success_ THEN NfcArrival(uid)
  ELSE NfcRemoval
\* readNFC() after the poll returned success_ (and uid when success_).
readNFC(success_, uid) ==
  IF success_ /\ cardPresesnt THEN NfcNoChange
  ELSE IF ~success_ /\ ~cardPresesnt THEN NfcNoChange
  ELSE IF success_ /\ ~cardPresesnt THEN NfcArrival(uid)
  ELSE IF ~success_ /\ cardPresesnt THEN NfcRemoval
  ELSE NfcNoChange

(***************************************************************************)
(* processData(data).                                                      *)
(***************************************************************************)
\* data.substring(1, data.length()).toInt()
ParseNumber(data) == toInt(substring(data, 1, Len(data)))

\* commands[index] = data.substring(3, data.length());
CommandText(data) == substring(data, CMD_TEXT_START, Len(data))

\* if (index >= 0 && index < 20)
\* Faulty variant: the upper bound is inclusive.
IndexInRange_inclusive(index) == index >= 0 /\ index <= MAX_SLOTS
\* Lines 221 and 235: if (index >= 0 && index < 20).
IndexInRange(index) == index >= 0 /\ index < MAX_SLOTS

\* Faulty variant: nothing is acknowledged on Serial.
AckToSerial_none(lines) == << >>
\* The lines an acknowledgement writes to Serial and to SerialBT.
AckToSerial(lines) == lines
AckToBT(lines) == lines

HelpLine1 == Line("RFID Cube Podium PN532 - Firmware v1.0", << >>)
HelpLine2 == Line("N<num> - Set number of tags. 'Eg: N10' ", << >>)
HelpLine3 == Line("T<index> - Set Last placed tag ID for index. Eg: T1", << >>)
HelpLine4 ==
  Line("C<index><command> - Set command for index. Eg: C1HELLO - Set HELLO command for index 1", << >>)
HelpLine5 ==
  Line("R<command> - Set Tag Remove command. Eg: RREMOVED - Set REMOVED command for tag remove", << >>)

Unchanged ==
  [ numTags |-> numTags, tags |-> tags, commands |-> commands,
    removeCommand |-> removeCommand, eeprom |-> eeprom, flash |-> flash,
    serial |-> << >>, bt |-> << >> ]

\* Lines 208-218.
processN(data) ==
  LET n   == ClampNumTags(ToUint8(ParseNumber(data)))
      e1  == EEPROMwrite(eeprom, ADDR_NUM_TAGS, n)
      num == EEPROMread(e1, ADDR_NUM_TAGS)
      ack == << Line("NUM TAGS SET TO: %1", << StringDec(num) >>) >>
  IN  [ Unchanged EXCEPT
          !.numTags = n, !.eeprom = e1, !.flash = EEPROMcommit(e1, flash),
          !.serial = << TextLine(StringDec(n)) >> \o AckToSerial(ack),
          !.bt = AckToBT(ack) ]

\* Faulty variant: the slot is bound to tagID, which every poll clears.
processT_currentTag(data) ==
  LET index == ParseNumber(data) - 1
      ok    == IndexInRange(index)
      e1    == IF ok THEN writeStringToEEPROM(eeprom, TagAddr(index), tagID) ELSE eeprom
      ack   == [i \in 1..numTags |->
                  Line("Index: %1 Tag ID: %2",
                       << StringDec(i), readStringFromEEPROM(e1, TagAddr(i - 1)) >>)]
  IN  [ Unchanged EXCEPT
          !.tags = IF ok THEN [tags EXCEPT ![index] = tagID] ELSE tags,
          !.eeprom = e1,
          !.flash = IF ok THEN EEPROMcommit(e1, flash) ELSE flash,
          !.serial = AckToSerial(ack), !.bt = AckToBT(ack) ]
\* Lines 219-232.
processT(data) ==
  LET index == ParseNumber(data) - 1
      ok    == IndexInRange(index)
      e1    == IF ok THEN writeStringToEEPROM(eeprom, TagAddr(index), prevTagID) ELSE eeprom
      ack   == [i \in 1..numTags |->
                  Line("Index: %1 Tag ID: %2",
                       << StringDec(i), readStringFromEEPROM(e1, TagAddr(i - 1)) >>)]
  IN  [ Unchanged EXCEPT
          !.tags = IF ok THEN [tags EXCEPT ![index] = prevTagID] ELSE tags,
          !.eeprom = e1,
          !.flash = IF ok THEN EEPROMcommit(e1, flash) ELSE flash,
          !.serial = AckToSerial(ack), !.bt = AckToBT(ack) ]

\* Lines 233-246.
processC(data) ==
  LET index == ParseNumber(data) - 1
      ok    == IndexInRange(index)
      text  == CommandText(data)
      e1    == IF ok THEN writeStringToEEPROM(eeprom, CmdAddr(index), text) ELSE eeprom
      ack   == [i \in 1..numTags |->
                  Line("Index: %1 Command: %2",
                       << StringDec(i), readStringFromEEPROM(e1, CmdAddr(i - 1)) >>)]
  IN  [ Unchanged EXCEPT
          !.commands = IF ok THEN [commands EXCEPT ![index] = text] ELSE commands,
          !.eeprom = e1,
          !.flash = IF ok THEN EEPROMcommit(e1, flash) ELSE flash,
          !.serial = AckToSerial(ack), !.bt = AckToBT(ack) ]

\* Lines 247-255.
processR(data) ==
  LET text == substring(data, 1, Len(data))
      e1   == writeStringToEEPROM(eeprom, ADDR_REMOVE, text)
      ack  == << Line("Remove Command: %1", << readStringFromEEPROM(e1, ADDR_REMOVE) >>) >>
  IN  [ Unchanged EXCEPT
          !.removeCommand = text, !.eeprom = e1, !.flash = EEPROMcommit(e1, flash),
          !.serial = AckToSerial(ack), !.bt = AckToBT(ack) ]

\* Lines 256-269.
processHELP ==
  [ Unchanged EXCEPT
      !.serial = AckToSerial(<< HelpLine1, BlankLine, HelpLine2, HelpLine3, HelpLine4, HelpLine5 >>),
      !.bt = AckToBT(<< HelpLine1, HelpLine2, HelpLine3, HelpLine4, HelpLine5 >>) ]

PrefixN == Str(<< "N" >>)
PrefixT == Str(<< "T" >>)
PrefixC == Str(<< "C" >>)
PrefixR == Str(<< "R" >>)
WordHELP == Str(<< "H", "E", "L", "P" >>)

processData(data) ==
  IF startsWith(data, PrefixN) THEN processN(data)
  ELSE IF startsWith(data, PrefixT) THEN processT(data)
  ELSE IF startsWith(data, PrefixC) THEN processC(data)
  ELSE IF startsWith(data, PrefixR) THEN processR(data)
  ELSE IF contains(data, WordHELP) THEN processHELP
  ELSE Unchanged

(***************************************************************************)
(* Inputs: the UIDs the reader reports, the lines the operator sends, the  *)
(* EEPROM images the device boots from.                                    *)
(***************************************************************************)
UidX == << 4, 161, 178, 195 >>                  \* 04A1B2C3
UidY == << 4, 10, 255, 0, 18, 52, 86 >>         \* 040AFF00123456

LineN2 == Str(<< "N", "2" >>)
LineN21 == Str(<< "N", "2", "1" >>)
LineN256 == Str(<< "N", "2", "5", "6" >>)
LineNneg == Str(<< "N", "-", "1" >>)
LineNx == Str(<< "N", "x" >>)
LineT1 == Str(<< "T", "1" >>)
LineT2 == Str(<< "T", "2" >>)
LineT3 == Str(<< "T", "3" >>)
LineC1 == Str(<< "C", "1", "L", "I", "G", "H", "T", "_", "O", "N" >>)
LineR == Str(<< "R", "B", "Y", "E" >>)
LineHELP == Str(<< "H", "E", "L", "P" >>)
LineXYZ == Str(<< "X", "Y", "Z" >>)
LineT0 == Str(<< "T", "0" >>)
LineT20 == Str(<< "T", "2", "0" >>)
LineT21 == Str(<< "T", "2", "1" >>)
LineTneg == Str(<< "T", "-", "3" >>)
LineTx == Str(<< "T", "x" >>)
LineT1text == Str(<< "T", "1", "D", "E", "A", "D", "B", "E", "E", "F" >>)
LineC0 == Str(<< "C", "0", "X" >>)
LineC21 == Str(<< "C", "2", "1", "A", "B", "C" >>)
LineCneg == Str(<< "C", "-", "1", "O", "N" >>)
LineCx == Str(<< "C", "O", "N" >>)
Linen5 == Str(<< "n", "5" >>)
LineXHELP == Str(<< "X", "H", "E", "L", "P" >>)
LineRHELP == Str(<< "R", "H", "E", "L", "P" >>)

\* A never-written EEPROM, an erased one, and one configured for two slots.
FreshImage == [a \in Addrs |-> 255]
ZeroImage == [a \in Addrs |-> 0]
TwoSlotImage == [a \in Addrs |-> IF a = ADDR_NUM_TAGS THEN 2 ELSE 0]

\* An operator session: the image the device boots from, the tags that are
\* presented and the lines that are sent.
Sessions ==
  { [image |-> FreshImage, uids |-> {UidX, UidY},
     lines |-> {LineN2, LineN21, LineN256, LineNneg, LineNx}],
    [image |-> TwoSlotImage, uids |-> {UidX, UidY},
     lines |-> {LineT1, LineT2, LineC1}],
    [image |-> ZeroImage, uids |-> {UidX},
     lines |-> {LineN2, LineT1, LineT3, LineR, LineHELP, LineXYZ}],
    [image |-> TwoSlotImage, uids |-> {UidX},
     lines |-> {LineT0, LineT20, LineT21, LineTneg, LineTx, LineT1text,
                LineC0, LineC21, LineCneg, LineCx, Linen5, LineXHELP, LineRHELP}] }

NoInterval == [emitted |-> FALSE, handled |-> FALSE, edited |-> FALSE]
NoProbe == [offset |-> 0, text |-> << >>, result |-> << >>, state |-> "none"]

NoInput == [op |-> "none", success |-> FALSE, uid |-> << >>, hasLine |-> FALSE, line |-> << >>]

(***************************************************************************)
(* Actions.                                                                *)
(***************************************************************************)
Init ==
  /\ cardPresesnt = FALSE
  /\ mode = FALSE
  /\ numTags = 0
  /\ removeCommand = EmptyString
  /\ commands = EmptySlots
  /\ tags = EmptySlots
  /\ tagID = EmptyString
  /\ prevTagID = EmptyString
  /\ \E s \in Sessions : flash = s.image /\ session = [uids |-> s.uids, lines |-> s.lines]
  /\ eeprom = flash
  /\ pc = "setup"
  /\ outSerial = << >>
  /\ outSerial2 = << >>
  /\ outBT = << >>
  /\ last = NoInput
  /\ event = NoEvent
  /\ lastEvent = NoEvent
  /\ nBoots = 0
  /\ interval = NoInterval
  /\ probe = NoProbe

\* Faulty variant: the loop starts although no reader answered.
nfcInit_noHalt(found) == "readNFC"
\* nfcInit(): where setup() goes when getFirmwareVersion() did (not) answer.
nfcInit(found) == IF found THEN "readNFC" ELSE "halt"

\* setup(): eepromInit() then nfcInit(), which halts when no reader answers.
Setup ==
  /\ pc = "setup"
  /\ \E found \in BOOLEAN :
       \E cfg \in {eepromInit(eeprom, tags, commands)} :
           /\ numTags' = cfg.numTags
           /\ removeCommand' = cfg.removeCommand
           /\ tags' = cfg.tags
           /\ commands' = cfg.commands
           /\ pc' = nfcInit(found)
           /\ last' = [NoInput EXCEPT !.op = "setup", !.success = found]
  /\ outSerial' = << >> /\ outSerial2' = << >> /\ outBT' = << >>
  /\ event' = NoEvent
  /\ UNCHANGED << cardPresesnt, mode, tagID, prevTagID, eeprom, flash, lastEvent, session, nBoots,
                  interval, probe >>

\* loop(): readNFC();
ReadNFC ==
  /\ pc = "readNFC"
  /\ \E success_ \in BOOLEAN : \E uid \in session.uids :
       /\ (~success_ => uid = UidX)
       /\ \E r \in {readNFC(success_, uid)} :
              /\ cardPresesnt' = r.cardPresesnt
              /\ tagID' = r.tagID
              /\ prevTagID' = r.prevTagID
              /\ outSerial' = r.out.serial
              /\ outSerial2' = r.out.serial2
              /\ event' = r.event
              /\ lastEvent' = IF r.event = NoEvent THEN lastEvent ELSE r.event
              /\ interval' = IF r.event.kind = "Arrived"
                              THEN [emitted |-> r.out # NoOutput, handled |-> FALSE,
                                    edited |-> FALSE]
                              ELSE interval
              /\ numTags' = r.cfg.numTags
              /\ tags' = r.cfg.tags
              /\ commands' = r.cfg.commands
              /\ removeCommand' = r.cfg.removeCommand
              /\ mode' = r.cfg.mode
              /\ eeprom' = r.cfg.eeprom
              /\ flash' = r.cfg.flash
       /\ last' = [NoInput EXCEPT !.op = "readNFC", !.success = success_,
                                   !.uid = IF success_ THEN uid ELSE << >>]
  /\ outBT' = << >>
  /\ pc' = "readBTSerial"
  /\ UNCHANGED << session, nBoots, probe >>

\* The effect of a channel handler: a line is available and processed, or none is.
Handle(op, next) ==
  /\ pc = op
  /\ pc' = next
  /\ outSerial2' = << >>
  /\ event' = NoEvent
  /\ UNCHANGED << cardPresesnt, mode, tagID, prevTagID, lastEvent, session, nBoots, probe >>
  /\ \/ /\ last' = [NoInput EXCEPT !.op = op]
        /\ outSerial' = << >> /\ outBT' = << >>
        /\ UNCHANGED << numTags, removeCommand, commands, tags, eeprom, flash, interval >>
     \/ \E data \in session.lines :
             \E r \in {processData(data)} :
                 /\ numTags' = r.numTags
                 /\ removeCommand' = r.removeCommand
                 /\ commands' = r.commands
                 /\ tags' = r.tags
                 /\ eeprom' = r.eeprom
                 /\ flash' = r.flash
                 /\ outSerial' = r.serial
                 /\ outBT' = r.bt
                 /\ last' = [NoInput EXCEPT !.op = op, !.hasLine = TRUE, !.line = data]
                 /\ interval' = IF cardPresesnt
                                 THEN [interval EXCEPT
                                         !.handled = TRUE,
                                         !.edited = @ \/ r.numTags # numTags \/ r.tags # tags]
                                 ELSE interval

\* loop(): readBTSerial();
ReadBTSerial == Handle("readBTSerial", "readSerial")

\* loop(): readSerial();
ReadSerial == Handle("readSerial", "readNFC")

\* A power cycle: the globals are constructed again, the buffer is lost.
Reboot ==
  /\ pc \in {"readNFC", "halt"}
  /\ nBoots < MaxBoots
  /\ nBoots' = nBoots + 1
  /\ cardPresesnt' = FALSE
  /\ numTags' = 0
  /\ removeCommand' = EmptyString
  /\ commands' = EmptySlots
  /\ tags' = EmptySlots
  /\ tagID' = EmptyString
  /\ prevTagID' = EmptyString
  /\ eeprom' = flash
  /\ pc' = "setup"
  /\ outSerial' = << >> /\ outSerial2' = << >> /\ outBT' = << >>
  /\ last' = [NoInput EXCEPT !.op = "reboot"]
  /\ event' = NoEvent
  /\ lastEvent' = NoEvent
  /\ interval' = NoInterval
  /\ UNCHANGED << mode, flash, session, probe >>

Next == Setup \/ ReadNFC \/ ReadBTSerial \/ ReadSerial \/ Reboot

Spec == Init /\ [][Next]_vars

(***************************************************************************)
(* Expected values, written out independently of the conversions above.    *)
(***************************************************************************)
TagX == Str(<< "0", "4", "A", "1", "B", "2", "C", "3" >>)
TagY == Str(<< "0", "4", "0", "A", "F", "F", "0", "0", "1", "2", "3", "4", "5", "6" >>)
ExpectedId(uid) == IF uid = UidX THEN TagX ELSE TagY

TextLIGHT_ON == Str(<< "L", "I", "G", "H", "T", "_", "O", "N" >>)
TextIGHT_ON == Str(<< "I", "G", "H", "T", "_", "O", "N" >>)
TextBYE == Str(<< "B", "Y", "E" >>)

\* The slots of [0, numTags) whose identity is id.
Matching(id) == {i \in Slots : i < numTags /\ tags[i] = id}

\* A step of readNFC, of a channel handler that processed a line.
NfcStep == pc = "readNFC" /\ last'.op = "readNFC"
LineDone == last.hasLine

(***************************************************************************)
(* C1: the presence transitions of readNFC alternate Arrived, Removed,     *)
(* Arrived, ... from boot: a successful poll while absent yields           *)
(* Arrived(X), a successful poll while present yields nothing, a failed    *)
(* poll while present yields Removed of the identity that last arrived, a  *)
(* failed poll while absent yields nothing; no other handler yields one.   *)
(***************************************************************************)
C1_Step ==
  /\ NfcStep =>
       /\ (last'.success /\ ~cardPresesnt) =>
            /\ event' = Arrived(ExpectedId(last'.uid))
            /\ lastEvent.kind \in {"None", "Removed"}
       /\ (last'.success /\ cardPresesnt) => event' = NoEvent
       /\ (~last'.success /\ cardPresesnt) =>
            /\ lastEvent.kind = "Arrived"
            /\ event' = Removed(lastEvent.id)
       /\ (~last'.success /\ ~cardPresesnt) => event' = NoEvent
       /\ lastEvent' = IF event' = NoEvent THEN lastEvent ELSE event'
  /\ ~NfcStep => event' = NoEvent

C1_Alternation == [][C1_Step]_vars

\* poll(none), poll(X), poll(X), poll(none) has just ended with Removed(X).
C1_Witness ==
  /\ event = Removed(TagX)
  /\ last.op = "readNFC" /\ ~last.success
  /\ ~cardPresesnt

(***************************************************************************)
(* C2: single-tag lock-in.  While present after Arrived(X), a successful   *)
(* poll reporting another identity Y yields no event, writes nothing to    *)
(* Serial or Serial2 and leaves prevTagID and cardPresesnt alone; an       *)
(* Arrived that is not the first since boot follows a Removed.             *)
(***************************************************************************)
C2_Step ==
  /\ (NfcStep /\ cardPresesnt /\ last'.success /\ ExpectedId(last'.uid) # prevTagID) =>
       /\ event' = NoEvent
       /\ outSerial' = << >> /\ outSerial2' = << >>
       /\ prevTagID' = prevTagID
       /\ cardPresesnt' = cardPresesnt
       /\ lastEvent' = lastEvent
  /\ (event'.kind = "Arrived" /\ lastEvent.kind # "None") =>
       /\ lastEvent.kind = "Removed"
       /\ ~cardPresesnt

C2_LockIn == [][C2_Step]_vars

\* Y was polled while X is present and nothing happened.
C2_Witness ==
  /\ last.op = "readNFC" /\ last.success /\ last.uid = UidY
  /\ cardPresesnt /\ prevTagID = TagX /\ lastEvent = Arrived(TagX)
  /\ event = NoEvent

(***************************************************************************)
(* The count lines of the sessions: the number each one carries (a         *)
(* malformed number has none) and the decimal text of the counts they set. *)
(***************************************************************************)
CountLines == {LineN2, LineN21, LineN256, LineNneg, LineNx}
Malformed(line) == line = LineNx
CountOf(line) ==
  IF line = LineN2 THEN 2
  ELSE IF line = LineN21 THEN 21
  ELSE IF line = LineN256 THEN 256
  ELSE IF line = LineNneg THEN -1
  ELSE 0

CountText(n) ==
  IF n = 0 THEN Str(<< "0" >>)
  ELSE IF n = 2 THEN Str(<< "2" >>)
  ELSE IF n = 10 THEN Str(<< "1", "0" >>)
  ELSE Str(<< "2", "0" >>)

CountAck(n) == Line("NUM TAGS SET TO: %1", << CountText(n) >>)

(***************************************************************************)
(* C3 as stated: after N<n>, numTags is min(n, 20) for n >= 0 and the      *)
(* clamp default for n < 0 or a malformed number, and the acknowledgement  *)
(* reports that value.                                                     *)
(***************************************************************************)
C3_Original ==
  (LineDone /\ last.line \in CountLines) =>
    LET n == CountOf(last.line)
        want == IF Malformed(last.line) \/ n < 0 THEN CLAMP_DEFAULT
                ELSE IF n > MAX_SLOTS THEN MAX_SLOTS ELSE n
    IN  numTags = want /\ outBT = << CountAck(want) >>

(***************************************************************************)
(* C3 amended: after N<n>, numTags is n mod 256 when that is at most 20    *)
(* and the clamp default 10 otherwise, a malformed number counting as 0;   *)
(* the acknowledgement on Serial and SerialBT reports that value.          *)
(***************************************************************************)
C3_Clamp ==
  (LineDone /\ last.line \in CountLines) =>
    LET n == CountOf(last.line) % BYTE_MOD
        want == IF n > MAX_SLOTS THEN CLAMP_DEFAULT ELSE n
    IN  /\ numTags = want
        /\ outBT = << CountAck(want) >>
        /\ outSerial = << TextLine(CountText(want)), CountAck(want) >>

\* N21 was processed and the count became the clamp default.
C3_Witness ==
  /\ LineDone /\ last.line = LineN21
  /\ numTags = CLAMP_DEFAULT
  /\ outBT = << CountAck(CLAMP_DEFAULT) >>

(***************************************************************************)
(* C4: in every reachable state 0 <= numTags <= 20, so every scan over     *)
(* [0, numTags) stays inside the 20-element arrays.                        *)
(***************************************************************************)
C4_CountInBounds ==
  /\ numTags >= 0 /\ numTags <= MAX_SLOTS
  /\ \A i \in 0..(numTags - 1) : i \in DOMAIN tags /\ i \in DOMAIN commands

\* The device has loaded a count byte above the cap.
C4_Witness ==
  /\ last.op = "setup"
  /\ EEPROMread(flash, ADDR_NUM_TAGS) > MAX_SLOTS
  /\ numTags = CLAMP_DEFAULT

(***************************************************************************)
(* The slot a bind line of the sessions names.                             *)
(***************************************************************************)
BindLines == {LineT1, LineT2, LineT3}
SlotOf(line) == IF line = LineT1 THEN 0 ELSE IF line = LineT2 THEN 1 ELSE 2

\* load() after a reboot on the committed store.
Reloaded == eepromInit(flash, EmptySlots, EmptySlots)

(***************************************************************************)
(* C5 as stated: after T<i+1> with prevTagID = X (8 or 14 hex characters)  *)
(* and a reboot that loads the committed store, tags[i] = X.               *)
(***************************************************************************)
C5_BindSurvivesReboot ==
  (LineDone /\ last.line \in BindLines /\ prevTagID \in {TagX, TagY}) =>
    Reloaded.tags[SlotOf(last.line)] = prevTagID

(***************************************************************************)
(* C6 as stated: the line C1LIGHT_ON sets the command of slot 0 to         *)
(* LIGHT_ON.                                                               *)
(***************************************************************************)
C6_CommandText ==
  (LineDone /\ last.line = LineC1) => commands[0] = TextLIGHT_ON

(***************************************************************************)
(* The lines of the sessions that are acknowledged.                        *)
(***************************************************************************)
AckLines == CountLines \cup BindLines \cup {LineC1, LineR, LineHELP}
LinesOf(out) == {out[i] : i \in 1..Len(out)}
EventChannel == IF mode THEN outSerial2 ELSE outSerial

(***************************************************************************)
(* C7 as stated: an acknowledgement is written only to the channel the     *)
(* command arrived on and never to the channel selected for event output.  *)
(***************************************************************************)
C7_Original ==
  (LineDone /\ last.line \in AckLines) =>
    /\ last.op = "readBTSerial" => outSerial = << >>
    /\ last.op = "readSerial" => outBT = << >>
    /\ EventChannel = << >>

(***************************************************************************)
(* C7 amended: an acknowledgement is written to both Serial and SerialBT,  *)
(* whichever channel the command arrived on, and never to Serial2.         *)
(***************************************************************************)
C7_AckChannels ==
  (LineDone /\ last.line \in AckLines) =>
    /\ outSerial2 = << >>
    /\ LinesOf(outBT) \subseteq LinesOf(outSerial)
    /\ (last.line \in CountLines \cup {LineR, LineHELP}) => outBT # << >>
    /\ (last.line \in BindLines \cup {LineC1}) => Len(outBT) = numTags /\ Len(outSerial) = numTags

\* A line that arrived on SerialBT was acknowledged on Serial too.
C7_Witness ==
  /\ LineDone /\ last.op = "readBTSerial" /\ last.line = LineR
  /\ outSerial = << Line("Remove Command: %1", << TextBYE >>) >>
  /\ outBT = outSerial

(***************************************************************************)
(* What an event handler writes for a command text: an empty line and the  *)
(* text, on Serial when mode is Standalone and on Serial2 when Master.     *)
(***************************************************************************)
Emitted(text) == << BlankLine, TextLine(text) >>
EmittedOnce(text, serial, serial2) ==
  IF mode THEN serial = << >> /\ serial2 = Emitted(text)
  ELSE serial = Emitted(text) /\ serial2 = << >>

(***************************************************************************)
(* C8: on Arrived(X) prevTagID becomes X; if some slot of [0, numTags) has *)
(* identity X, exactly the command of the lowest such slot is written, to  *)
(* exactly one event channel; otherwise nothing is written to either.      *)
(***************************************************************************)
C8_Step ==
  (NfcStep /\ last'.success /\ ~cardPresesnt) =>
    LET id == ExpectedId(last'.uid)
        found == Matching(id)
    IN  /\ prevTagID' = id
        /\ found # {} => EmittedOnce(commands[SetMin(found)], outSerial', outSerial2')
        /\ found = {} => outSerial' = << >> /\ outSerial2' = << >>
        /\ outBT' = << >>

C8_ArrivalLookup == [][C8_Step]_vars

\* X arrived while slots 0 and 1 both hold X with different commands.
C8_Witness ==
  /\ event = Arrived(TagX)
  /\ numTags >= 2 /\ tags[0] = TagX /\ tags[1] = TagX
  /\ commands[0] = TextIGHT_ON /\ commands[1] # commands[0]
  /\ outSerial = Emitted(TextIGHT_ON)

(***************************************************************************)
(* C9: on Removed the remove-command is written once, on the selected      *)
(* event channel, exactly when prevTagID is the identity of a slot of      *)
(* [0, numTags) at that moment; otherwise nothing is written.  prevTagID   *)
(* is unchanged.                                                           *)
(***************************************************************************)
C9_Step ==
  (NfcStep /\ ~last'.success /\ cardPresesnt) =>
    /\ prevTagID' = prevTagID
    /\ outBT' = << >>
    /\ Matching(prevTagID) # {} => EmittedOnce(removeCommand, outSerial', outSerial2')
    /\ Matching(prevTagID) = {} => outSerial' = << >> /\ outSerial2' = << >>

C9_RemovalLookup == [][C9_Step]_vars

\* The tag bound to slot 0 was removed and the remove-command BYE was written.
C9_Witness ==
  /\ event = Removed(TagX)
  /\ tags[0] = TagX /\ numTags > 0
  /\ removeCommand = TextBYE
  /\ outSerial = Emitted(TextBYE) /\ outSerial2 = << >>

(***************************************************************************)
(* C10: every mutating command commits after its last store write, so      *)
(* between handlers the store holds no uncommitted byte, and the committed *)
(* record of the last mutator holds the value it wrote.                    *)
(***************************************************************************)
C10_Durable ==
  /\ flash = eeprom
  /\ (LineDone /\ last.line \in CountLines) => flash[ADDR_NUM_TAGS] = numTags
  /\ (LineDone /\ last.line \in BindLines) =>
       readStringFromEEPROM(flash, TAGS_BASE + STRIDE * SlotOf(last.line)) = prevTagID
  /\ (LineDone /\ last.line = LineC1) => readStringFromEEPROM(flash, CMDS_BASE) = TextIGHT_ON
  /\ (LineDone /\ last.line = LineR) => readStringFromEEPROM(flash, ADDR_REMOVE) = TextBYE

\* The remove-command BYE was set and is in the committed store.
C10_Witness ==
  /\ LineDone /\ last.line = LineR
  /\ flash # ZeroImage
  /\ flash[ADDR_REMOVE] = 3
  /\ << flash[ADDR_REMOVE + 1], flash[ADDR_REMOVE + 2], flash[ADDR_REMOVE + 3] >> = TextBYE

\* A handler step that took one of the given lines from its channel.
LineStep(lines) == pc = last'.op /\ last'.hasLine /\ last'.line \in lines

\* The in-range T lines and the 0-based slot each of them names.
BindRequests == BindLines \cup {LineT20, LineT1text}
RequestedSlot(line) ==
  IF line = LineT20 THEN 19 ELSE IF line = LineT1text THEN 0 ELSE SlotOf(line)
TextDEADBEEF == Str(<< "D", "E", "A", "D", "B", "E", "E", "F" >>)

(***************************************************************************)
(* C11: T<k> with k in range sets tags[k-1] to the identity of the most    *)
(* recent Arrived event, whether that tag is still present or was already  *)
(* removed, and to the empty identity when no tag arrived since boot; text *)
(* that follows the index in the line is never bound.                      *)
(***************************************************************************)
C11_Step ==
  LineStep(BindRequests) =>
    /\ tags'[RequestedSlot(last'.line)] =
         (IF lastEvent.kind = "None" THEN EmptyString ELSE lastEvent.id)
    /\ tags'[RequestedSlot(last'.line)] # TextDEADBEEF

C11_BindsLastObserved == [][C11_Step]_vars

\* T1DEADBEEF was sent after X had been removed: slot 0 holds X.
C11_Witness ==
  /\ LineDone /\ last.line = LineT1text
  /\ lastEvent = Removed(TagX) /\ ~cardPresesnt
  /\ tags[0] = TagX

\* The T and C lines whose index is 0, negative, not a number or above MAX_SLOTS.
RejectLines == {LineT0, LineT21, LineTneg, LineTx, LineC0, LineC21, LineCneg, LineCx}

(***************************************************************************)
(* C12: a T or C line whose 0-based index is outside [0, 20) changes       *)
(* neither tags, commands, removeCommand, numTags nor any byte of the      *)
(* store, and the loop goes on to its next step.                           *)
(***************************************************************************)
C12_Step ==
  LineStep(RejectLines) =>
    /\ UNCHANGED << tags, commands, removeCommand, numTags, eeprom, flash >>
    /\ pc' = (IF pc = "readBTSerial" THEN "readSerial" ELSE "readNFC")

C12_RejectedIndex == [][C12_Step]_vars

\* T21 was sent after slot 0 had been bound to X; the loop is at its next step.
C12_Witness ==
  /\ LineDone /\ last.line = LineT21
  /\ tags[0] = TagX /\ flash # TwoSlotImage
  /\ pc \in {"readSerial", "readNFC"}

\* The lines that begin with none of N, T, C, R and do not hold the word HELP.
UnknownLines == {LineXYZ, Linen5}

(***************************************************************************)
(* C13: a line that begins with none of N, T, C, R and does not contain    *)
(* HELP changes neither the configuration, the presence state nor the      *)
(* store, and nothing is written to any channel.                           *)
(***************************************************************************)
C13_Step ==
  LineStep(UnknownLines) =>
    /\ UNCHANGED << numTags, tags, commands, removeCommand, mode, eeprom, flash >>
    /\ UNCHANGED << cardPresesnt, tagID, prevTagID >>
    /\ outSerial' = << >> /\ outSerial2' = << >> /\ outBT' = << >>

UsageOnSerial == << HelpLine1, BlankLine, HelpLine2, HelpLine3, HelpLine4, HelpLine5 >>
UsageOnBT == << HelpLine1, HelpLine2, HelpLine3, HelpLine4, HelpLine5 >>
TextHELP == Str(<< "H", "E", "L", "P" >>)
HelpStep(lines) ==
  LineStep(lines) =>
    /\ UNCHANGED << numTags, tags, commands, removeCommand, mode, eeprom, flash >>
    /\ outSerial' = UsageOnSerial /\ outBT' = UsageOnBT

(***************************************************************************)
(* C14 as stated: every line that contains HELP anywhere changes neither   *)
(* the configuration nor the store and emits the usage text.               *)
(***************************************************************************)
C14_Original == [][HelpStep({LineHELP, LineXHELP, LineRHELP})]_vars

(***************************************************************************)
(* C14 amended: a line that contains HELP and begins with none of N, T, C, *)
(* R changes neither the configuration nor the store and emits the usage   *)
(* text on both operator channels; a line that begins with one of those    *)
(* letters is that command: RHELP sets the remove-command to HELP and      *)
(* emits no usage text.                                                    *)
(***************************************************************************)
C14_Step ==
  /\ HelpStep({LineHELP, LineXHELP})
  /\ LineStep({LineRHELP}) =>
       /\ removeCommand' = TextHELP
       /\ HelpLine1 \notin LinesOf(outSerial') \cup LinesOf(outBT')

C14_HelpAfterVerbs == [][C14_Step]_vars

\* XHELP was sent after slot 0 had been bound: the usage text is on both channels.
C14_Witness ==
  /\ LineDone /\ last.line = LineXHELP
  /\ tags[0] = TagX
  /\ outSerial = UsageOnSerial /\ outBT = UsageOnBT

(***************************************************************************)
(* C16: when the reader does not answer at boot, setup() ends in the halt  *)
(* of nfcInit having written nothing; from there no poll is made, no line  *)
(* is handled, nothing is written and neither the configuration nor the    *)
(* store changes: the only step that leaves the halt is an external reset. *)
(***************************************************************************)
C16_Step ==
  /\ (pc = "setup" /\ last'.op = "setup" /\ ~last'.success) =>
       /\ pc' = "halt"
       /\ outSerial' = << >> /\ outSerial2' = << >> /\ outBT' = << >>
       /\ event' = NoEvent
       /\ UNCHANGED << eeprom, flash >>
  /\ pc = "halt" => (UNCHANGED vars \/ (last'.op = "reboot" /\ pc' = "setup"))

C16_HaltsWithoutReader == [][C16_Step]_vars

\* The device was reset after slot 0 had been bound to X, and the reader did
\* not answer: it is halted with the configuration it loaded.
C16_Witness ==
  /\ pc = "halt" /\ last.op = "setup" /\ ~last.success
  /\ nBoots = 1 /\ tags[0] = TagX
  /\ outSerial = << >> /\ outBT = << >>

(***************************************************************************)
(* C19: none of the four readNFC transitions changes numTags, tags,        *)
(* commands, removeCommand, mode or a byte of the store; after the load at *)
(* boot they change only in a step that handles an operator line, and mode *)
(* never changes.                                                          *)
(***************************************************************************)
C19_Step ==
  /\ NfcStep => UNCHANGED << numTags, tags, commands, removeCommand, mode, eeprom, flash >>
  /\ (pc \notin {"setup", "halt"} /\ last'.op # "reboot") =>
       \/ UNCHANGED << numTags, tags, commands, removeCommand, mode, eeprom, flash >>
       \/ pc = last'.op /\ last'.hasLine
  /\ mode' = mode

C17_MirrorConsistency ==
  pc # "setup" =>
    /\ \A i \in Slots : i < numTags =>
         /\ tags[i] = readStringFromEEPROM(eeprom, TAGS_BASE + STRIDE * i)
         /\ commands[i] = readStringFromEEPROM(eeprom, CMDS_BASE + STRIDE * i)
    /\ removeCommand = readStringFromEEPROM(eeprom, ADDR_REMOVE)

\* The persisted records, read back from the committed store.
PersistedTag(fl, j) == readStringFromEEPROM(fl, TAGS_BASE + STRIDE * j)
PersistedCommand(fl, j) == readStringFromEEPROM(fl, CMDS_BASE + STRIDE * j)
PersistedRemove(fl) == readStringFromEEPROM(fl, ADDR_REMOVE)
PersistedCount(fl) == fl[ADDR_NUM_TAGS]

(***************************************************************************)
(* C18 as stated: a T, C or R command changes only its own record of the   *)
(* store: the persisted identity of every other slot, every other          *)
(* persisted command, the persisted remove-command and the persisted slot  *)
(* count read back the same before and after.                              *)
(***************************************************************************)
C18_Step ==
  /\ LineStep(BindRequests) =>
       /\ \A j \in Slots \ {RequestedSlot(last'.line)} :
            PersistedTag(flash', j) = PersistedTag(flash, j)
       /\ \A j \in Slots : PersistedCommand(flash', j) = PersistedCommand(flash, j)
       /\ PersistedRemove(flash') = PersistedRemove(flash)
       /\ PersistedCount(flash') = PersistedCount(flash)
  /\ LineStep({LineC1}) =>
       /\ \A j \in Slots : PersistedTag(flash', j) = PersistedTag(flash, j)
       /\ \A j \in Slots \ {0} : PersistedCommand(flash', j) = PersistedCommand(flash, j)
       /\ PersistedRemove(flash') = PersistedRemove(flash)
       /\ PersistedCount(flash') = PersistedCount(flash)
  /\ LineStep({LineR, LineRHELP}) =>
       /\ \A j \in Slots : PersistedTag(flash', j) = PersistedTag(flash, j)
       /\ \A j \in Slots : PersistedCommand(flash', j) = PersistedCommand(flash, j)
       /\ PersistedCount(flash') = PersistedCount(flash)

C18_RecordsDoNotInterfere == [][C18_Step]_vars

\* What the removal that ended the presence interval wrote on the event channel.
RemovalWrote == EventChannel # << >>

(***************************************************************************)
(* C20 as stated: also when N, T or C commands are handled between a       *)
(* tag's arrival and its removal, the remove-command is written at the     *)
(* removal exactly when a slot command was written at the arrival that     *)
(* started the interval.                                                   *)
(***************************************************************************)
C20_Original ==
  event.kind = "Removed" => (RemovalWrote <=> interval.emitted)

(***************************************************************************)
(* C20 amended: the pairing holds for every presence interval in which no  *)
(* handled command changed numTags or a slot identity (C and R commands    *)
(* may be handled in it); the removal writes the remove-command exactly    *)
(* when the arrival wrote a slot command.  An N or T command handled while *)
(* the tag is present can break the pairing, because the removal scans the *)
(* slots as they are at that moment.                                       *)
(***************************************************************************)
C20_PairedUnlessRebound ==
  (event.kind = "Removed" /\ ~interval.edited) =>
    /\ RemovalWrote <=> interval.emitted
    /\ RemovalWrote => EventChannel = Emitted(removeCommand)

\* X, bound to slot 0, arrived and its command was written; a command that
\* left the slots alone was handled while it was present; at its removal the
\* remove-command was written.
C20_Witness ==
  /\ event = Removed(TagX)
  /\ interval.emitted /\ interval.handled /\ ~interval.edited
  /\ outSerial = Emitted(removeCommand)

(***************************************************************************)
(* The record encoding on its own: one writeStringToEEPROM call at an      *)
(* offset of the store, then one readStringFromEEPROM call at that offset. *)
(***************************************************************************)
\* The offsets the program uses, the last offset whose stride lies in the
\* store, and one whose stride does not.
LastStride == EEPROM_SIZE - STRIDE
PastLastStride == EEPROM_SIZE - 2
RecordOffsets ==
  {ADDR_NUM_TAGS, TAGS_BASE, TAGS_BASE + STRIDE, CMDS_BASE, ADDR_REMOVE, LastStride, PastLastStride}

\* The strings of 0 to 9 characters that begin A1B2C3D4E and 04A1B2C3.
TextA1B2C3D4E == Str(<< "A", "1", "B", "2", "C", "3", "D", "4", "E" >>)
RecordTexts ==
  {SubSeq(TextA1B2C3D4E, 1, n) : n \in 0..(STRIDE - 1)}
    \cup {SubSeq(TagX, 1, n) : n \in 1..Len(TagX)}

InitRecord ==
  /\ cardPresesnt = FALSE
  /\ mode = FALSE
  /\ numTags = 0
  /\ removeCommand = EmptyString
  /\ commands = EmptySlots
  /\ tags = EmptySlots
  /\ tagID = EmptyString
  /\ prevTagID = EmptyString
  /\ flash \in {FreshImage, ZeroImage, TwoSlotImage}
  /\ session = [uids |-> {}, lines |-> {}]
  /\ eeprom = flash
  /\ pc = "record"
  /\ outSerial = << >>
  /\ outSerial2 = << >>
  /\ outBT = << >>
  /\ last = NoInput
  /\ event = NoEvent
  /\ lastEvent = NoEvent
  /\ nBoots = 0
  /\ interval = NoInterval
  /\ probe = NoProbe

\* writeStringToEEPROM(offset, text)
WriteRecord ==
  /\ pc = "record" /\ probe.state = "none"
  /\ \E offset \in RecordOffsets, text \in RecordTexts :
       /\ eeprom' = writeStringToEEPROM(eeprom, offset, text)
       /\ probe' = [offset |-> offset, text |-> text, result |-> << >>, state |-> "written"]
  /\ UNCHANGED << cardPresesnt, mode, numTags, removeCommand, commands, tags, tagID, prevTagID,
                  flash, pc, outSerial, outSerial2, outBT, last, event, lastEvent, session,
                  nBoots, interval >>

\* readStringFromEEPROM(offset)
ReadRecord ==
  /\ pc = "record" /\ probe.state = "written"
  /\ probe' = [probe EXCEPT !.result = readStringFromEEPROM(eeprom, probe.offset),
                            !.state = "read"]
  /\ UNCHANGED << cardPresesnt, mode, numTags, removeCommand, commands, tags, tagID, prevTagID,
                  eeprom, flash, pc, outSerial, outSerial2, outBT, last, event, lastEvent,
                  session, nBoots, interval >>

NextRecord == WriteRecord \/ ReadRecord

SpecRecord == InitRecord /\ [][NextRecord]_vars

\* The record written at the offset lies inside the store.
RecordFits(offset, text) == offset + Len(text) < EEPROM_SIZE
WriteTouchesOnlyRecord ==
  (probe.state = "none" /\ probe'.state = "written") =>
    \A a \in Addrs :
      a \notin probe'.offset..(probe'.offset + Len(probe'.text)) => eeprom'[a] = eeprom[a]

(***************************************************************************)
(* C15 as stated: for every offset and every string of at most 9           *)
(* characters, the read that follows the write returns the string, and the *)
(* write touches only the bytes offset .. offset + length.                 *)
(***************************************************************************)
C15_OriginalStep ==
  /\ WriteTouchesOnlyRecord
  /\ (probe.state = "written" /\ probe'.state = "read") => probe'.result = probe'.text

C15_Original == [][C15_OriginalStep]_vars

(***************************************************************************)
(* C15 amended: for every offset and every string of at most 9 characters  *)
(* whose record lies inside the 512-byte store (offset + length < 512),    *)
(* the read that follows the write returns the string; at every offset the *)
(* write touches only the bytes offset .. offset + length.                 *)
(***************************************************************************)
C15_Step ==
  /\ WriteTouchesOnlyRecord
  /\ (probe.state = "written" /\ probe'.state = "read"
        /\ RecordFits(probe'.offset, probe'.text)) => probe'.result = probe'.text

C15_RoundTrip == [][C15_Step]_vars

\* Nine characters were written to the last stride of a never-written store
\* and read back.
C15_Witness ==
  /\ probe.state = "read" /\ probe.offset = LastStride
  /\ probe.text = TextA1B2C3D4E /\ probe.result = TextA1B2C3D4E
  /\ flash = FreshImage /\ eeprom[LastStride] = Len(TextA1B2C3D4E)

====
